---------------------------- MODULE Spec2Model ----------------------------
(***************************************************************************)
(* CaRMS data platform: the Dagster pipeline (ingestion, transform, load,  *)
(* embeddings) writing PostgreSQL, and the retrieval endpoints reading it. *)
(*                                                                         *)
(* The database is the committed state `db`; every load stage works in a   *)
(* session of its own whose statements become visible at commit.  A stage  *)
(* is the list of statements its function executes (Stmts), run one        *)
(* statement per step, so that a crash or an integrity error can end it at *)
(* any point.                                                              *)
(***************************************************************************)
EXTENDS Integers, Sequences, FiniteSets, TLC

VARIABLES
    files,      \* the raw data files on disk (ingestion input)
    sel,        \* the stages selected for the current run
    status,     \* per stage: "idle", "pending", "running", "done", "failed"
    out,        \* per stage: its last materialized output
    mat,        \* the stages whose output has been materialized
    db,         \* the committed database: five tables and the vector index
    pc,         \* per database stage: index of its next statement
    sess,       \* per database stage: the open transaction
    ops,        \* per database stage: statements executed in its current run
    prior,      \* per database stage: its target table when the stage began
    loaded,     \* full runs completed (capped), and the database after the first
    singletons, \* the API process's lazily loaded handles: _embeddings, _llm
    resp,       \* the last response of the API, and what its query observed
    threads,    \* per request thread: where it is in get_embeddings / get_llm
    constructed \* per handle: how many times its constructor has run

pipelineVars == <<files, sel, status, out, mat, db, pc, sess, ops, prior, loaded>>

apiVars == <<singletons, resp>>

vars == <<files, sel, status, out, mat, db, pc, sess, ops, prior, loaded,
          singletons, resp, threads, constructed>>

------------------------------------------------------------------------------
(* Values *)

\* pandas NaN / SQL NULL for a numeric cell
NaN == 0

\* pandas NaN / None for a text cell
NaNText == "<NaN>"

RECURSIVE SeqToSet(_)
SeqToSet(s) == IF s = <<>> THEN {} ELSE {Head(s)} \cup SeqToSet(Tail(s))

RECURSIVE SelectSeqBy(_, _)
\* the rows of s, in order, whose index is in keep
SelectSeqBy(s, keep) ==
    IF s = <<>> THEN <<>>
    ELSE LET n == Len(s)
             rest == SelectSeqBy(SubSeq(s, 1, n - 1), keep)
         IN IF n \in keep THEN Append(rest, s[n]) ELSE rest

\* pandas Series.is_unique on column f of a frame
IsUnique(rows, f) ==
    \A i, j \in 1..Len(rows) : rows[i][f] = rows[j][f] => i = j

Min(S) == CHOOSE x \in S : \A y \in S : x <= y

------------------------------------------------------------------------------
(* The tables and their foreign keys *)

Tables == {"disciplines", "institutions", "programs",
           "program_descriptions", "program_embeddings"}

\* the foreign keys of a table: <<column, referenced table>>
ForeignKeys(t) ==
    CASE t = "programs" -> {<<"discipline_id", "disciplines">>,
                            <<"institution_id", "institutions">>}
      [] t = "program_descriptions" -> {<<"program_id", "programs">>}
      [] t = "program_embeddings" -> {<<"program_id", "programs">>}
      [] OTHER -> {}

\* tables with a primary key the loader supplies (not auto-increment)
HasExplicitKey(t) == t \in {"disciplines", "institutions", "programs"}

------------------------------------------------------------------------------
(* Transform helpers (transform.py) *)

FRENCH_SCHOOLS == {"Universite Laval", "Universite de Sherbrooke",
                   "Universite de Montreal"}

\* the section columns of the wide CSV (the source lists fifteen; the model
\* keeps the first and the seventh)
SECTION_COLUMNS == <<"program_name", "interviews">>

\* str.upper() on a label held as a sequence of one-character strings
UpperChar(c) ==
    CASE c = "i" -> "I" [] c = "m" -> "M" [] c = "g" -> "G" [] c = "c" -> "C"
      [] OTHER -> c

Upper(str) == [i \in 1..Len(str) |-> UpperChar(str[i])]

\* Python's `needle in str`
Contains(str, needle) ==
    \E i \in 1..(Len(str) - Len(needle) + 1) :
        SubSeq(str, i, i + Len(needle) - 1) = needle

\* CMG looked for before IMG
derive_stream_category_cmg_first(stream) ==
    LET stream_upper == Upper(stream)
    IN IF Contains(stream_upper, <<"C", "M", "G">>) THEN "CMG"
       ELSE IF Contains(stream_upper, <<"I", "M", "G">>) THEN "IMG"
       ELSE "All"

derive_stream_category(stream) ==
    LET stream_upper == Upper(stream)
    IN IF Contains(stream_upper, <<"I", "M", "G">>) THEN "IMG"
       ELSE IF Contains(stream_upper, <<"C", "M", "G">>) THEN "CMG"
       ELSE "All"

\* int(entry["id"].split("|")[1]) on an id held as <<iteration, stream id>>
ProgramStreamId(entry) == entry.id[2]

\* A markdown text is held as its sequence of paragraphs (the parts between
\* blank lines), a paragraph as one string.  The two regular expressions are
\* modelled on the paragraphs the model's documents are made of.

\* `Approximate Quota[:\s]*` with nothing else in the paragraph (IGNORECASE)
QuotaHeading(par) == par \in {"Approximate Quota:", "approximate quota"}

\* `\s*(?:##)?\s*(\d+)` at the start of a paragraph: the number, else NaN
LeadingNumber(par) ==
    CASE par = "5" -> 5
      [] par = "## 12" -> 12
      [] OTHER -> NaN

\* heading, newline and number within one paragraph; a number on the line of
\* the heading does not match (`\n+` is required)
InlineQuota(par) ==
    CASE par = "Approximate Quota:\n7" -> 7
      [] par = "Approximate Quota: 5" -> NaN
      [] OTHER -> NaN

\* the first non-blank paragraph after paragraph k ("" when there is none):
\* `\n+\s*` and `\s*:\s*` run over blank lines
NextParagraph(text, k) ==
    LET later == {j \in (k + 1)..Len(text) : text[j] # ""}
    IN IF later = {} THEN "" ELSE text[Min(later)]

\* the number the quota pattern captures when matched from paragraph k
QuotaAt(text, k) ==
    IF InlineQuota(text[k]) # NaN THEN InlineQuota(text[k])
    ELSE IF QuotaHeading(text[k]) THEN LeadingNumber(NextParagraph(text, k))
    ELSE NaN

\* re.search: the leftmost match; int(match.group(1)), or None
extract_quota(markdown_text) ==
    LET matches == {k \in 1..Len(markdown_text) :
                       QuotaAt(markdown_text, k) # NaN}
    IN IF matches = {} THEN NaN ELSE QuotaAt(markdown_text, Min(matches))

\* `(Accreditation status|Statut d'agrement)\s*:` ending the paragraph
AccreditationLabel(par) ==
    par \in {"Accreditation status:", "## Statut d'agrement :"}

\* .strip().strip("#").strip("*").strip() on the captured rest of the line
Stripped(par) ==
    CASE par = "## 12" -> "12"
      [] par = "**Accredited**" -> "Accredited"
      [] par = "" -> NaNText
      [] OTHER -> par

\* label and status on one line: the stripped status, else no match
InlineAccreditation(par) ==
    CASE par = "Accreditation status: Accredited" -> "Accredited"
      [] par = "## statut d'agrement : **Agree**" -> "Agree"
      [] par = "Accreditation status" -> NaNText
      [] OTHER -> NaNText

\* the status the accreditation pattern captures when matched from paragraph k
AccreditationAt(text, k) ==
    IF InlineAccreditation(text[k]) # NaNText
    THEN InlineAccreditation(text[k])
    ELSE IF AccreditationLabel(text[k])
    THEN Stripped(NextParagraph(text, k))
    ELSE NaNText

extract_accreditation(markdown_text) ==
    LET matches == {k \in 1..Len(markdown_text) :
                       AccreditationAt(markdown_text, k) # NaNText}
    IN IF matches = {} THEN NaNText
       ELSE AccreditationAt(markdown_text, Min(matches))

\* markdown_lookup.get(pid, ""): the page_content of the last entry of that
\* id (a dict, later entries overwrite), the empty text when there is none
MarkdownLookup(raw_markdown, pid) ==
    LET entries == {e \in 1..Len(raw_markdown) :
                       ProgramStreamId(raw_markdown[e]) = pid}
    IN IF entries = {} THEN <<>>
       ELSE raw_markdown[CHOOSE e \in entries : \A f \in entries : f <= e]
               .page_content

------------------------------------------------------------------------------
(* Transform stages: a record [ok, value]; ok = FALSE is a failed assert *)

Failed == [ok |-> FALSE, value |-> <<>>]

Passed(v) == [ok |-> TRUE, value |-> v]

stg_disciplines(raw_disciplines) ==
    LET df == [i \in 1..Len(raw_disciplines) |->
                 [id |-> raw_disciplines[i].discipline_id,
                  name |-> raw_disciplines[i].discipline]]
    IN IF /\ \A i \in 1..Len(df) : df[i].id # NaN
          /\ IsUnique(df, "id")
          /\ \A i \in 1..Len(df) : df[i].name # NaNText
       THEN Passed(df)
       ELSE Failed

\* the expected institution count (18 in the source, scaled to the model's data)
ExpectedInstitutions == 2

\* the expected program count (815 in the source, scaled to the model's data)
ExpectedPrograms == 2

RECURSIVE SortedNames(_)
\* groupby returns its keys sorted: the rank of a school name in that order
NameRank(n) ==
    CASE n = "McGill University" -> 1
      [] n = "Universite Laval" -> 2
      [] n = "University of Toronto" -> 3
      [] OTHER -> 4

SortedNames(S) ==
    IF S = {} THEN <<>>
    ELSE LET m == CHOOSE x \in S : \A y \in S : NameRank(x) <= NameRank(y)
         IN <<m>> \o SortedNames(S \ {m})

\* the largest school_id of a school taken as its id
stg_institutions_takes_max(raw_programs) ==
    LET names == {raw_programs[i].school_name : i \in 1..Len(raw_programs)}
                    \ {NaNText}
        keys == SortedNames(names)
        institutions == [k \in 1..Len(keys) |->
            [id |-> CHOOSE x \in {raw_programs[i].school_id :
                            i \in {j \in 1..Len(raw_programs) :
                                     raw_programs[j].school_name = keys[k]}} :
                        \A i \in 1..Len(raw_programs) :
                            raw_programs[i].school_name = keys[k]
                            => raw_programs[i].school_id <= x,
             name |-> keys[k],
             language |-> IF keys[k] \in FRENCH_SCHOOLS THEN "fr" ELSE "en"]]
    IN IF /\ Len(institutions) = ExpectedInstitutions
          /\ IsUnique(institutions, "id")
       THEN Passed(institutions)
       ELSE Failed

stg_institutions(raw_programs) ==
    LET names == {raw_programs[i].school_name : i \in 1..Len(raw_programs)}
                    \ {NaNText}
        keys == SortedNames(names)
        institutions == [k \in 1..Len(keys) |->
            [id |-> Min({raw_programs[i].school_id :
                            i \in {j \in 1..Len(raw_programs) :
                                     raw_programs[j].school_name = keys[k]}}),
             name |-> keys[k],
             language |-> IF keys[k] \in FRENCH_SCHOOLS THEN "fr" ELSE "en"]]
    IN IF /\ Len(institutions) = ExpectedInstitutions
          /\ IsUnique(institutions, "id")
       THEN Passed(institutions)
       ELSE Failed

\* Series.map(inst_map): the id of the institution of that name, else NaN
InstMap(institutions, name) ==
    LET hits == {i \in 1..Len(institutions) : institutions[i].name = name}
    IN IF hits = {} THEN NaN
       ELSE institutions[CHOOSE i \in hits : \A j \in hits : j <= i].id

\* the columns stg_programs computes for row i of raw_programs
ProgramFrame(raw_programs, raw_markdown, institutions) ==
    [i \in 1..Len(raw_programs) |->
        [id |-> raw_programs[i].program_stream_id,
         discipline_id |-> raw_programs[i].discipline_id,
         institution_id |-> InstMap(institutions, raw_programs[i].school_name),
         stream |-> raw_programs[i].program_stream,
         stream_category |->
             derive_stream_category(raw_programs[i].program_stream),
         quota |-> extract_quota(
             MarkdownLookup(raw_markdown, raw_programs[i].program_stream_id)),
         accreditation |-> extract_accreditation(
             MarkdownLookup(raw_markdown, raw_programs[i].program_stream_id))]]

\* the rows of a school that did not map dropped instead of failing
stg_programs_drops_unmapped(raw_programs, raw_markdown, institutions) ==
    LET all == ProgramFrame(raw_programs, raw_markdown, institutions)
        df == SelectSeqBy(all, {i \in 1..Len(all) :
                                   all[i].institution_id # NaN})
    IN IF /\ Len(df) = ExpectedPrograms
          /\ IsUnique(df, "id")
       THEN Passed(df)
       ELSE Failed

\* the programs joined to their documents: a program without one is lost
stg_programs_requires_document(raw_programs, raw_markdown, institutions) ==
    LET all == ProgramFrame(raw_programs, raw_markdown, institutions)
        df == SelectSeqBy(all, {i \in 1..Len(all) :
                 \E e \in 1..Len(raw_markdown) :
                     ProgramStreamId(raw_markdown[e]) = all[i].id})
    IN IF ~ (\A i \in 1..Len(df) : df[i].institution_id # NaN) THEN Failed
       ELSE IF /\ Len(df) = ExpectedPrograms
               /\ IsUnique(df, "id")
       THEN Passed(df)
       ELSE Failed

stg_programs(raw_programs, raw_markdown, institutions) ==
    LET df == ProgramFrame(raw_programs, raw_markdown, institutions)
    IN IF ~ (\A i \in 1..Len(df) : df[i].institution_id # NaN) THEN Failed
       ELSE IF /\ Len(df) = ExpectedPrograms
               /\ IsUnique(df, "id")
       THEN Passed(df)
       ELSE Failed

\* the melted frame returned without dropna
stg_sections_keeps_empty(raw_sections) ==
    LET n == Len(raw_sections)
        melted == [k \in 1..(n * Len(SECTION_COLUMNS)) |->
            LET c == ((k - 1) \div n) + 1
                r == ((k - 1) % n) + 1
            IN [program_id |-> raw_sections[r].program_description_id,
                section_name |-> SECTION_COLUMNS[c],
                content |-> raw_sections[r][SECTION_COLUMNS[c]]]]
    IN Passed(melted)

\* DataFrame.melt stacks the value columns one after the other, then dropna
stg_sections(raw_sections) ==
    LET n == Len(raw_sections)
        melted == [k \in 1..(n * Len(SECTION_COLUMNS)) |->
            LET c == ((k - 1) \div n) + 1
                r == ((k - 1) % n) + 1
            IN [program_id |-> raw_sections[r].program_description_id,
                section_name |-> SECTION_COLUMNS[c],
                content |-> raw_sections[r][SECTION_COLUMNS[c]]]]
    IN Passed(SelectSeqBy(melted,
                {k \in 1..Len(melted) : melted[k].content # NaNText}))

\* RecursiveCharacterTextSplitter.split_text on a text held as its sequence of
\* paragraphs, each within CHUNK_SIZE: one chunk per non-blank paragraph
split_text(content) ==
    SelectSeqBy(content, {k \in 1..Len(content) : content[k] # ""})

\* the chunks of an entry numbered from 1 instead of 0
EntryChunks_one_based(entry) ==
    LET chunks == split_text(entry.page_content)
    IN [i \in 1..Len(chunks) |->
          [program_id |-> ProgramStreamId(entry),
           chunk_index |-> i,
           chunk_text |-> chunks[i]]]

\* the body of `for entry in raw_markdown`: enumerate(chunks) counts from 0
EntryChunks(entry) ==
    LET chunks == split_text(entry.page_content)
    IN [i \in 1..Len(chunks) |->
          [program_id |-> ProgramStreamId(entry),
           chunk_index |-> i - 1,
           chunk_text |-> chunks[i]]]

RECURSIVE chunked_documents(_)
chunked_documents(raw_markdown) ==
    IF raw_markdown = <<>> THEN <<>>
    ELSE LET n == Len(raw_markdown)
         IN chunked_documents(SubSeq(raw_markdown, 1, n - 1)) \o
            EntryChunks(raw_markdown[n])

------------------------------------------------------------------------------
(* Statements of a load stage *)

Delete(t) == [op |-> "delete", table |-> t, rows |-> <<>>]

AddAll(t, rows) == [op |-> "add_all", table |-> t, rows |-> rows]

Commit == [op |-> "commit", table |-> "", rows |-> <<>>]

DropTable == [op |-> "drop_table", table |-> "program_embeddings", rows |-> <<>>]

CreateTable ==
    [op |-> "create_table", table |-> "program_embeddings", rows |-> <<>>]

CreateIndex ==
    [op |-> "create_index", table |-> "program_embeddings", rows |-> <<>>]

\* batch size of db_descriptions (1000 in the source, scaled to the model's data)
DescriptionBatchSize == 2

\* batch size of db_embeddings (500 in the source, scaled to the model's data)
EmbeddingBatchSize == 2

\* a slice that runs to the end of the list instead of i + batch_size
Batch_unbounded(records, i, batch_size) == SubSeq(records, i + 1, Len(records))

\* records[i : i + batch_size], i counted from 0
Batch(records, i, batch_size) ==
    SubSeq(records, i + 1, IF i + batch_size < Len(records)
                           THEN i + batch_size ELSE Len(records))

RECURSIVE BatchLoop(_, _, _, _)
\* for i in range(0, len(records), batch_size): add_all(batch); commit()
BatchLoop(t, records, i, batch_size) ==
    IF i >= Len(records) THEN <<>>
    ELSE <<AddAll(t, Batch(records, i, batch_size)), Commit>> \o
         BatchLoop(t, records, i + batch_size, batch_size)

\* SentenceTransformer.encode on one text: the vector, held as a number (a
\* position on a line, in units of 1e-5)
Encode(text) ==
    CASE text = "t1" -> 10000 [] text = "t2" -> 40000 [] text = "t3" -> 20000
      [] text = "t4" -> 60000 [] OTHER -> 90000

\* db_disciplines leaving the institutions in place
db_disciplines_keeps_institutions(stg) ==
    <<Delete("program_embeddings"), Delete("program_descriptions"),
      Delete("programs"), Delete("disciplines"),
      Commit,
      AddAll("disciplines",
             [i \in 1..Len(stg) |-> [id |-> stg[i].id, name |-> stg[i].name]]),
      Commit>>

db_disciplines(stg) ==
    <<Delete("program_embeddings"), Delete("program_descriptions"),
      Delete("programs"), Delete("institutions"), Delete("disciplines"),
      Commit,
      AddAll("disciplines",
             [i \in 1..Len(stg) |-> [id |-> stg[i].id, name |-> stg[i].name]]),
      Commit>>

\* db_institutions without the delete of the descriptions
db_institutions_skips_descriptions(stg) ==
    <<Delete("program_embeddings"), Delete("programs"), Delete("institutions"),
      Commit,
      AddAll("institutions",
             [i \in 1..Len(stg) |-> [id |-> stg[i].id, name |-> stg[i].name,
                                     language |-> stg[i].language]]),
      Commit>>

db_institutions(stg) ==
    <<Delete("program_embeddings"), Delete("program_descriptions"),
      Delete("programs"), Delete("institutions"),
      Commit,
      AddAll("institutions",
             [i \in 1..Len(stg) |-> [id |-> stg[i].id, name |-> stg[i].name,
                                     language |-> stg[i].language]]),
      Commit>>

\* Program(...) of a row of stg_programs: quota and accreditation are None
\* where the frame holds NaN / None
ProgramRow(row) ==
    [id |-> row.id,
     discipline_id |-> row.discipline_id,
     institution_id |-> row.institution_id,
     stream |-> row.stream,
     stream_category |-> row.stream_category,
     quota |-> IF row.quota # NaN THEN row.quota ELSE NaN,
     accreditation |-> IF row.accreditation # NaNText
                       THEN row.accreditation ELSE NaNText]

\* db_programs deleting the descriptions before the embeddings
db_programs_swapped_deletes(stg) ==
    <<Delete("program_descriptions"), Delete("program_embeddings"),
      Delete("programs"),
      Commit,
      AddAll("programs",
             [i \in 1..Len(stg) |-> ProgramRow(stg[i])]),
      Commit>>

db_programs(stg) ==
    <<Delete("program_embeddings"), Delete("program_descriptions"),
      Delete("programs"),
      Commit,
      AddAll("programs",
             [i \in 1..Len(stg) |-> ProgramRow(stg[i])]),
      Commit>>

\* db_descriptions adding to the table without deleting its rows first
db_descriptions_appends(stg) ==
    BatchLoop("program_descriptions",
              [i \in 1..Len(stg) |->
                  [program_id |-> stg[i].program_id,
                   section_name |-> stg[i].section_name,
                   content |-> stg[i].content]],
              0, DescriptionBatchSize)

db_descriptions(stg) ==
    <<Delete("program_descriptions"), Commit>> \o
    BatchLoop("program_descriptions",
              [i \in 1..Len(stg) |->
                  [program_id |-> stg[i].program_id,
                   section_name |-> stg[i].section_name,
                   content |-> stg[i].content]],
              0, DescriptionBatchSize)

RECURSIVE EmbeddingLoop(_, _, _, _)
\* for i in range(0, len(chunks), batch_size): the records of
\* zip(chunks[i : i + batch_size], embeddings[i : i + batch_size])
EmbeddingLoop(chunks, embeddings, i, batch_size) ==
    IF i >= Len(chunks) THEN <<>>
    ELSE LET batch_chunks == Batch(chunks, i, batch_size)
             batch_embeddings == Batch(embeddings, i, batch_size)
             n == IF Len(batch_chunks) < Len(batch_embeddings)
                  THEN Len(batch_chunks) ELSE Len(batch_embeddings)
             records == [k \in 1..n |->
                 [program_id |-> batch_chunks[k].program_id,
                  chunk_index |-> batch_chunks[k].chunk_index,
                  chunk_text |-> batch_chunks[k].chunk_text,
                  embedding |-> batch_embeddings[k]]]
         IN <<AddAll("program_embeddings", records), Commit>> \o
            EmbeddingLoop(chunks, embeddings, i + batch_size, batch_size)

\* db_embeddings creating the index right after the table, before the inserts
db_embeddings_index_first(chunks) ==
    LET texts == [i \in 1..Len(chunks) |-> chunks[i].chunk_text]
        embeddings == [i \in 1..Len(texts) |-> Encode(texts[i])]
    IN <<DropTable, CreateTable, Commit, CreateIndex, Commit>> \o
       EmbeddingLoop(chunks, embeddings, 0, EmbeddingBatchSize)

\* db_embeddings inserting into the existing table instead of recreating it
db_embeddings_keeps_table(chunks) ==
    LET texts == [i \in 1..Len(chunks) |-> chunks[i].chunk_text]
        embeddings == [i \in 1..Len(texts) |-> Encode(texts[i])]
    IN EmbeddingLoop(chunks, embeddings, 0, EmbeddingBatchSize) \o
       <<CreateIndex, Commit>>

db_embeddings(chunks) ==
    LET texts == [i \in 1..Len(chunks) |-> chunks[i].chunk_text]
        embeddings == [i \in 1..Len(texts) |-> Encode(texts[i])]
    IN <<DropTable, CreateTable, Commit>> \o
       EmbeddingLoop(chunks, embeddings, 0, EmbeddingBatchSize) \o
       <<CreateIndex, Commit>>

------------------------------------------------------------------------------
(* Sessions: what a transaction sees, and when a statement raises *)

NoSession == [deleted |-> {}, added |-> <<>>, target |-> "",
              dropped |-> FALSE, index |-> FALSE]

\* the rows of table t visible to a transaction
View(tx, t) ==
    (IF t \in tx.deleted \/ (tx.dropped /\ t = "program_embeddings")
     THEN <<>> ELSE db[t])
    \o (IF tx.target = t THEN tx.added ELSE <<>>)

Ids(rows) == {rows[i].id : i \in 1..Len(rows)}

\* DELETE FROM t: some visible row of a dependent table still references a row
ForeignKeyViolationOnDelete(tx, t) ==
    \E c \in Tables : \E fk \in ForeignKeys(c) :
        /\ fk[2] = t
        /\ \E i \in 1..Len(View(tx, c)) :
              View(tx, c)[i][fk[1]] \in Ids(View(tx, t))

\* the flush of the pending rows at commit: primary key and foreign keys
IntegrityErrorOnFlush(tx) ==
    LET t == tx.target
        all == View(tx, t)
    IN /\ tx.added # <<>>
       /\ \/ HasExplicitKey(t) /\ ~ IsUnique(all, "id")
          \/ \E fk \in ForeignKeys(t) : \E i \in 1..Len(tx.added) :
                tx.added[i][fk[1]] \notin Ids(View(tx, fk[2]))

Raises(tx, st) ==
    CASE st.op = "delete" -> ForeignKeyViolationOnDelete(tx, st.table)
      [] st.op = "commit" -> IntegrityErrorOnFlush(tx)
      [] OTHER -> FALSE

\* the transaction after a statement that is not a commit
Pending(tx, st) ==
    CASE st.op = "delete" ->
            [tx EXCEPT !.deleted = @ \cup {st.table},
                       !.added = IF tx.target = st.table THEN <<>> ELSE @]
      [] st.op = "add_all" ->
            [tx EXCEPT !.added = @ \o st.rows, !.target = st.table]
      [] st.op = "drop_table" ->
            [tx EXCEPT !.dropped = TRUE, !.index = FALSE]
      [] st.op = "create_table" -> tx
      [] st.op = "create_index" -> [tx EXCEPT !.index = TRUE]
      [] OTHER -> tx

\* the committed database after the transaction commits
Committed(tx) ==
    [t \in Tables \cup {"index"} |->
        IF t = "index"
        THEN (tx.index \/ (db["index"] /\ ~ tx.dropped))
        ELSE View(tx, t)]

------------------------------------------------------------------------------
(* The raw data files: the bounded inputs of the model *)

RawDiscipline(id) == [discipline_id |-> id, discipline |-> "Anesthesiology"]

GoodDisciplines == <<RawDiscipline(1)>>

DuplicateDisciplines == <<RawDiscipline(1), RawDiscipline(1)>>

RawProgram(id, disc, sid, school, stream) ==
    [program_stream_id |-> id, discipline_id |-> disc, school_id |-> sid,
     school_name |-> school, program_stream |-> stream]

CMGStream == <<"C", "M", "G">>

IMGStream == <<"i", "m", "g">>

GoodPrograms ==
    <<RawProgram(1, 1, 11, "McGill University", CMGStream),
      RawProgram(2, 1, 12, "Universite Laval", IMGStream)>>

\* one school only: the institution count is not the expected one
OneSchoolPrograms ==
    <<RawProgram(1, 1, 11, "McGill University", CMGStream),
      RawProgram(2, 1, 11, "McGill University", IMGStream)>>

\* a program of a discipline the lookup table does not hold
UnknownDisciplinePrograms ==
    <<RawProgram(1, 1, 11, "McGill University", CMGStream),
      RawProgram(2, 2, 12, "Universite Laval", IMGStream)>>

\* a row of the wide CSV: the id, a metadata column and the section columns
RawSection(id, name, interviews) ==
    [program_description_id |-> id, document_id |-> "1503",
     program_name |-> name, interviews |-> interviews]

GoodSections == <<RawSection(1, "a", "b"), RawSection(2, "c", NaNText)>>

\* a section of a program the master table does not hold (second batch)
UnknownProgramSections ==
    <<RawSection(1, "a", "b"), RawSection(3, NaNText, "c")>>

RawMarkdown(id, content) == [id |-> <<1503, id>>, page_content |-> content]

GoodMarkdown == <<RawMarkdown(1, <<"t1", "t2">>), RawMarkdown(2, <<"t3">>)>>

\* a document of a program the master table does not hold (second batch)
UnknownProgramMarkdown ==
    <<RawMarkdown(1, <<"t1", "t2">>), RawMarkdown(3, <<"t4">>)>>

DataFile(d, p, s, m) ==
    [disciplines |-> d, programs |-> p, sections |-> s, markdown |-> m]

\* the data sets the model runs on: a valid one, and ones with one fault each
DataFiles ==
    { DataFile(GoodDisciplines, GoodPrograms, GoodSections, GoodMarkdown),
      DataFile(GoodDisciplines, OneSchoolPrograms, GoodSections, GoodMarkdown),
      DataFile(GoodDisciplines, UnknownDisciplinePrograms, GoodSections,
               GoodMarkdown),
      DataFile(GoodDisciplines, GoodPrograms, UnknownProgramSections,
               UnknownProgramMarkdown),
      DataFile(DuplicateDisciplines, GoodPrograms, GoodSections, GoodMarkdown) }

------------------------------------------------------------------------------
(* The asset graph (decorators and parameters of the asset functions) *)

RawStages == {"raw_disciplines", "raw_programs", "raw_sections", "raw_markdown"}

StgStages == {"stg_disciplines", "stg_institutions", "stg_programs",
              "stg_sections"}

LoadStages == {"db_disciplines", "db_institutions", "db_programs",
               "db_descriptions"}

DbStages == LoadStages \cup {"db_embeddings"}

all_assets == RawStages \cup StgStages \cup DbStages \cup {"chunked_documents"}

\* the assets a stage takes as parameters
Inputs(s) ==
    CASE s = "stg_disciplines" -> {"raw_disciplines"}
      [] s = "stg_institutions" -> {"raw_programs"}
      [] s = "stg_programs" -> {"raw_programs", "raw_markdown",
                                "stg_institutions"}
      [] s = "stg_sections" -> {"raw_sections"}
      [] s = "db_disciplines" -> {"stg_disciplines"}
      [] s = "db_institutions" -> {"stg_institutions"}
      [] s = "db_programs" -> {"stg_programs"}
      [] s = "db_descriptions" -> {"stg_sections"}
      [] s = "chunked_documents" -> {"raw_markdown"}
      [] s = "db_embeddings" -> {"chunked_documents"}
      [] OTHER -> {}

\* the deps with db_programs no longer waiting for db_institutions
Deps_programs_without_institutions(s) ==
    CASE s = "db_institutions" -> {"db_disciplines"}
      [] s = "db_programs" -> {"db_disciplines"}
      [] s = "db_descriptions" -> {"db_programs"}
      [] s = "db_embeddings" -> {"db_programs"}
      [] OTHER -> {}

\* the deps=[...] of the asset decorators
Deps(s) ==
    CASE s = "db_institutions" -> {"db_disciplines"}
      [] s = "db_programs" -> {"db_disciplines", "db_institutions"}
      [] s = "db_descriptions" -> {"db_programs"}
      [] s = "db_embeddings" -> {"db_programs"}
      [] OTHER -> {}

Upstream(s) == Inputs(s) \cup Deps(s)

\* the table a database stage loads
Target(s) ==
    CASE s = "db_disciplines" -> "disciplines"
      [] s = "db_institutions" -> "institutions"
      [] s = "db_programs" -> "programs"
      [] s = "db_descriptions" -> "program_descriptions"
      [] OTHER -> "program_embeddings"

\* the statements a database stage executes on its materialized input
Stmts(s) ==
    CASE s = "db_disciplines" -> db_disciplines(out["stg_disciplines"])
      [] s = "db_institutions" -> db_institutions(out["stg_institutions"])
      [] s = "db_programs" -> db_programs(out["stg_programs"])
      [] s = "db_descriptions" -> db_descriptions(out["stg_sections"])
      [] OTHER -> db_embeddings(out["chunked_documents"])

------------------------------------------------------------------------------
(* The run: a stage starts once its selected upstream stages have completed *)

\* the runs the model launches: the whole pipeline, or one database stage alone
Selections == {all_assets} \cup {{s} : s \in DbStages}

\* The ingestion assets have no upstream and touch nothing but their own
\* output, so they commute with every other stage: the model runs them first.
IngestionFirst(s) ==
    s \notin RawStages => \A r \in RawStages \cap sel : status[r] = "done"

Ready(s) ==
    /\ s \in sel
    /\ status[s] = "pending"
    /\ \A u \in Upstream(s) \cap sel : status[u] = "done"
    /\ IngestionFirst(s)

RunOver ==
    /\ \A s \in all_assets : status[s] # "running"
    /\ \A s \in all_assets : ~ Ready(s)

\* `_embeddings = None`, `_llm = None`: no instance; an instance is held as the
\* number of the thread that constructed it
NoInstance == 0

\* the request threads the model tells apart
MaxThreads == 2

Threads == 1..MaxThreads

Handles == {"embeddings", "llm"}

\* a thread outside get_embeddings / get_llm; got: what its calls returned last
NoCall == [pc |-> "idle", fn |-> "", got |-> [h \in Handles |-> NoInstance]]

\* get_embeddings() / get_llm() run by one thread without another in between:
\* the handle after the call
LazyLoad(handle) == IF handle = NoInstance THEN Min(Threads) ELSE handle

\* the constructor runs of that call
Built(handle) == IF handle = NoInstance THEN 1 ELSE 0

\* llm.invoke was not called
NoLLM == [raised |-> FALSE, unreachable |-> FALSE, msg |-> <<>>]

\* no request answered yet.  Next to the response (code, results, total) the
\* record keeps what the request did: the rows its query returned (hits),
\* whether it reached get_llm() / llm.invoke and what that call did (llm), and
\* whether db_embeddings was rebuilding the table (midBuild), and the q, top_k
\* and stream_category parameters of the request.
NoResponse ==
    [endpoint |-> "", code |-> 0, results |-> <<>>, total |-> 0,
     hits |-> <<>>, llm_invoked |-> FALSE, llm |-> NoLLM, midBuild |-> FALSE,
     q |-> "", top_k |-> 0, stream_category |-> ""]

\* the positions of ops[s] that hold statement `op`
At(s, op) == {i \in 1..Len(ops[s]) : ops[s][i][1] = op}

Init ==
    /\ files \in DataFiles
    /\ sel = {}
    /\ status = [s \in all_assets |-> "idle"]
    /\ out = [s \in all_assets |-> <<>>]
    /\ mat = {}
    /\ db = [disciplines |-> <<>>, institutions |-> <<>>, programs |-> <<>>,
             program_descriptions |-> <<>>, program_embeddings |-> <<>>,
             index |-> FALSE]
    /\ pc = [s \in DbStages |-> 0]
    /\ sess = [s \in DbStages |-> NoSession]
    /\ ops = [s \in DbStages |-> <<>>]
    /\ prior = [s \in DbStages |-> <<>>]
    /\ loaded = [n |-> 0, db |-> db]
    /\ singletons = [h \in Handles |-> NoInstance]
    /\ threads = [t \in Threads |-> NoCall]
    /\ constructed = [h \in Handles |-> 0]
    /\ resp = NoResponse

\* every stage of a run of the whole pipeline has completed
FullRunDone ==
    /\ sel = all_assets
    /\ \A s \in all_assets : status[s] = "done"

\* how many completed full runs the model tells apart
MaxFullRuns == 2

\* history: the database as the first completed full run left it
Snapshot(d) ==
    [n |-> IF loaded.n < MaxFullRuns THEN loaded.n + 1 ELSE loaded.n,
     db |-> IF loaded.n = 0 THEN d ELSE loaded.db]

\* a run is launched on a selection whose unselected inputs are materialized
StartRun(S) ==
    /\ RunOver
    /\ \A s \in S : Inputs(s) \ S \subseteq mat
    /\ sel' = S
    /\ status' = [s \in all_assets |-> IF s \in S THEN "pending" ELSE "idle"]
    /\ pc' = [s \in DbStages |-> 0]
    /\ ops' = [s \in DbStages |-> <<>>]
    /\ prior' = [s \in DbStages |-> <<>>]
    /\ UNCHANGED <<files, out, mat, db, sess, loaded, singletons, resp,
                   threads, constructed>>

\* a stage without database access runs in one step: its output is stored,
\* or an assertion fails
Materialize(s, result) ==
    /\ Ready(s)
    /\ IF result.ok
       THEN /\ status' = [status EXCEPT ![s] = "done"]
            /\ out' = [out EXCEPT ![s] = result.value]
            /\ mat' = mat \cup {s}
       ELSE /\ status' = [status EXCEPT ![s] = "failed"]
            /\ UNCHANGED <<out, mat>>
    /\ UNCHANGED <<files, sel, db, pc, sess, ops, prior, loaded, singletons,
                   resp, threads, constructed>>

RawDisciplines == Materialize("raw_disciplines", Passed(files.disciplines))

RawPrograms == Materialize("raw_programs", Passed(files.programs))

RawSections == Materialize("raw_sections", Passed(files.sections))

RawMarkdownStage == Materialize("raw_markdown", Passed(files.markdown))

StgDisciplines ==
    Materialize("stg_disciplines", stg_disciplines(out["raw_disciplines"]))

StgInstitutions ==
    Materialize("stg_institutions", stg_institutions(out["raw_programs"]))

StgPrograms ==
    Materialize("stg_programs",
                stg_programs(out["raw_programs"], out["raw_markdown"],
                             out["stg_institutions"]))

StgSections == Materialize("stg_sections", stg_sections(out["raw_sections"]))

ChunkedDocuments ==
    Materialize("chunked_documents", Passed(chunked_documents(out["raw_markdown"])))

\* a database stage begins: get_engine() and the first connection
Begin(s) ==
    /\ Ready(s)
    /\ status' = [status EXCEPT ![s] = "running"]
    /\ pc' = [pc EXCEPT ![s] = 1]
    /\ sess' = [sess EXCEPT ![s] = NoSession]
    /\ ops' = [ops EXCEPT ![s] = <<>>]
    /\ prior' = [prior EXCEPT ![s] = db[Target(s)]]
    /\ UNCHANGED <<files, sel, out, mat, db, loaded, singletons, resp,
                   threads, constructed>>

\* the exception leaves the `with` block: the session is closed (rolled back)
Abort(s) ==
    /\ status' = [status EXCEPT ![s] = "failed"]
    /\ sess' = [sess EXCEPT ![s] = NoSession]
    /\ UNCHANGED <<files, sel, out, mat, db, pc, ops, prior, loaded, singletons,
                   resp, threads, constructed>>

\* a database stage executes its next statement; after the last one the
\* function returns and the asset is materialized
Step(s) ==
    /\ status[s] = "running"
    /\ LET st == Stmts(s)[pc[s]]
           last == pc[s] = Len(Stmts(s))
       IN IF Raises(sess[s], st)
          THEN Abort(s)
          ELSE /\ IF st.op = "commit"
                  THEN /\ db' = Committed(sess[s])
                       /\ sess' = [sess EXCEPT ![s] = NoSession]
                  ELSE /\ sess' = [sess EXCEPT ![s] = Pending(sess[s], st)]
                       /\ UNCHANGED db
               /\ pc' = [pc EXCEPT ![s] = @ + 1]
               /\ ops' = [ops EXCEPT ![s] = Append(@, <<st.op, st.table>>)]
               /\ status' = [status EXCEPT ![s] = IF last THEN "done" ELSE @]
               /\ mat' = IF last THEN mat \cup {s} ELSE mat
               /\ loaded' = IF last /\ sel = all_assets
                                 /\ \A t \in all_assets \ {s} : status[t] = "done"
                              THEN Snapshot(db')
                              ELSE loaded
               /\ UNCHANGED <<files, sel, out, prior, singletons, resp,
                   threads, constructed>>

\* the process or the connection dies at any point of a database stage
Crash(s) ==
    /\ status[s] = "running"
    /\ Abort(s)

DbDisciplines ==
    Begin("db_disciplines") \/ Step("db_disciplines")

DbInstitutions ==
    Begin("db_institutions") \/ Step("db_institutions")

DbPrograms ==
    Begin("db_programs") \/ Step("db_programs")

DbDescriptions ==
    Begin("db_descriptions") \/ Step("db_descriptions")

DbEmbeddings ==
    Begin("db_embeddings") \/ Step("db_embeddings")

Next ==
    \/ \E S \in Selections : StartRun(S)
    \/ RawDisciplines
    \/ RawPrograms
    \/ RawSections
    \/ RawMarkdownStage
    \/ StgDisciplines
    \/ StgInstitutions
    \/ StgPrograms
    \/ StgSections
    \/ ChunkedDocuments
    \/ DbDisciplines
    \/ DbInstitutions
    \/ DbPrograms
    \/ DbDescriptions
    \/ DbEmbeddings
    \/ \E s \in DbStages : Crash(s)

\* the pipeline run, re-run and crashing on every data set
Spec == Init /\ [][Next]_vars

------------------------------------------------------------------------------
(* The transform stages on many program and markdown files *)

\* the school_id and school_name of a row of the program master table
SchoolChoices ==
    { <<11, "McGill University">>, <<12, "McGill University">>,
      <<11, "Universite Laval">>, <<12, "Universite Laval">>,
      <<13, "University of Toronto">>, <<12, NaNText>> }

\* program files of two and of three rows, the schools varied
SchoolPrograms ==
    { <<RawProgram(1, 1, a[1], a[2], CMGStream),
        RawProgram(2, 1, b[1], b[2], IMGStream)>> :
          a \in SchoolChoices, b \in SchoolChoices }
    \cup
    { <<RawProgram(1, 1, a[1], a[2], CMGStream),
        RawProgram(2, 1, b[1], b[2], IMGStream),
        RawProgram(3, 1, c[1], c[2], CMGStream)>> :
          a \in SchoolChoices, b \in SchoolChoices, c \in SchoolChoices }

\* stream labels: each word in either case, both words, neither, near misses
Streams ==
    { CMGStream, IMGStream, <<"c", "m", "g">>, <<"I", "M", "G">>,
      <<"C", "M", "G", "/", "I", "m", "G">>,
      <<"i", "m", "g", " ", "c", "m", "g">>,
      <<"C", "I", "M", "G">>, <<"I", "C", "m", "G">>,
      <<"R", "O", "S">>, <<"I", "M">>, <<"C", "M", " ", "G">>, <<>> }

\* program files of two valid rows, the stream labels varied
StreamPrograms ==
    { <<RawProgram(1, 1, 11, "McGill University", x),
        RawProgram(2, 1, 12, "Universite Laval", y)>> :
          x \in Streams, y \in Streams }

\* the markdown documents of a program
Documents ==
    { <<"t1", "t2">>,
      <<>>,
      <<"t1", "Approximate Quota:", "5", "Accreditation status: Accredited">>,
      <<"approximate quota", "", "## 12", "## Statut d'agrement :", "",
        "**Accredited**">>,
      <<"Approximate Quota: 5", "Accreditation status", "t3">>,
      <<"Approximate Quota:", "t1", "Approximate Quota:\n7",
        "## statut d'agrement : **Agree**", "Accreditation status:">>,
      <<"Accreditation status:", "## 12", "Approximate Quota:">> }

\* no markdown entry for the program
NoDocument == <<NaNText>>

\* the markdown file: the entries of the programs that have a document
MarkdownOf(a, b) ==
    (IF a = NoDocument THEN <<>> ELSE <<RawMarkdown(1, a)>>) \o
    (IF b = NoDocument THEN <<>> ELSE <<RawMarkdown(2, b)>>)

\* markdown files for two programs, each with one of the documents or none,
\* and a file with two entries for the same program
MarkdownFiles ==
    { MarkdownOf(a, b) : a \in Documents \cup {NoDocument},
                         b \in Documents \cup {NoDocument} }
    \cup { <<RawMarkdown(1, <<"Approximate Quota:", "5">>),
             RawMarkdown(1, <<"t1">>)>> }

TransformFiles ==
    { DataFile(GoodDisciplines, p, GoodSections, GoodMarkdown) :
          p \in SchoolPrograms \cup StreamPrograms }
    \cup
    { DataFile(GoodDisciplines, GoodPrograms, GoodSections, m) :
          m \in MarkdownFiles }

\* the assets of the program branch: ingestion, transform and load
TransformAssets ==
    {"raw_disciplines", "raw_programs", "raw_markdown", "stg_disciplines",
     "stg_institutions", "stg_programs", "db_disciplines", "db_institutions",
     "db_programs"}

InitTransform ==
    /\ files \in TransformFiles
    /\ sel = {}
    /\ status = [s \in all_assets |-> "idle"]
    /\ out = [s \in all_assets |-> <<>>]
    /\ mat = {}
    /\ db = [disciplines |-> <<>>, institutions |-> <<>>, programs |-> <<>>,
             program_descriptions |-> <<>>, program_embeddings |-> <<>>,
             index |-> FALSE]
    /\ pc = [s \in DbStages |-> 0]
    /\ sess = [s \in DbStages |-> NoSession]
    /\ ops = [s \in DbStages |-> <<>>]
    /\ prior = [s \in DbStages |-> <<>>]
    /\ loaded = [n |-> 0, db |-> db]
    /\ singletons = [h \in Handles |-> NoInstance]
    /\ threads = [t \in Threads |-> NoCall]
    /\ constructed = [h \in Handles |-> 0]
    /\ resp = NoResponse

NextTransform ==
    \/ StartRun(TransformAssets)
    \/ RawDisciplines
    \/ RawPrograms
    \/ RawMarkdownStage
    \/ StgDisciplines
    \/ StgInstitutions
    \/ StgPrograms
    \/ DbDisciplines
    \/ DbInstitutions
    \/ DbPrograms

\* the program branch of the pipeline run on every program and markdown file
SpecTransform == InitTransform /\ [][NextTransform]_vars

------------------------------------------------------------------------------
(* stg_sections on many section files *)

\* the most rows of a section file
MaxSectionRows == 2

\* the cells of a section column: empty, a text, a blank text
SectionCells == {NaNText, "a", " "}

SectionRows ==
    { RawSection(id, name, interviews) :
          id \in 1..2, name \in SectionCells, interviews \in SectionCells }

RECURSIVE SectionFilesOf(_)
\* the section files of exactly n rows
SectionFilesOf(n) ==
    IF n = 0 THEN {<<>>}
    ELSE { Append(f, r) : f \in SectionFilesOf(n - 1), r \in SectionRows }

SectionFiles ==
    { DataFile(GoodDisciplines, GoodPrograms, s, GoodMarkdown) :
          s \in UNION { SectionFilesOf(n) : n \in 0..MaxSectionRows } }

SectionAssets == {"raw_sections", "stg_sections"}

InitSections ==
    /\ files \in SectionFiles
    /\ sel = {}
    /\ status = [s \in all_assets |-> "idle"]
    /\ out = [s \in all_assets |-> <<>>]
    /\ mat = {}
    /\ db = [disciplines |-> <<>>, institutions |-> <<>>, programs |-> <<>>,
             program_descriptions |-> <<>>, program_embeddings |-> <<>>,
             index |-> FALSE]
    /\ pc = [s \in DbStages |-> 0]
    /\ sess = [s \in DbStages |-> NoSession]
    /\ ops = [s \in DbStages |-> <<>>]
    /\ prior = [s \in DbStages |-> <<>>]
    /\ loaded = [n |-> 0, db |-> db]
    /\ singletons = [h \in Handles |-> NoInstance]
    /\ threads = [t \in Threads |-> NoCall]
    /\ constructed = [h \in Handles |-> 0]
    /\ resp = NoResponse

NextSections ==
    \/ StartRun(SectionAssets)
    \/ RawSections
    \/ StgSections

\* the sections file ingested and melted, on every section file
SpecSections == InitSections /\ [][NextSections]_vars

------------------------------------------------------------------------------
(* The retrieval endpoints (semantic_search.py) *)

\* HuggingFaceEmbeddings.embed_query: the query vector, held as a number
EmbedQuery(q) ==
    CASE q = "anesthesia" -> 30000 [] OTHER -> 10000

\* pe.embedding <=> query: the cosine distance, in units of 1e-5
Distance(a, b) == IF a < b THEN b - a ELSE a - b

\* round(1 - distance, 4), in units of 1e-5
Similarity(d) == (((100000 - d) + 5) \div 10) * 10

Lookup(rows, id) == {i \in 1..Len(rows) : rows[i].id = id}

\* FROM program_embeddings pe JOIN programs p [JOIN disciplines d]
\* JOIN institutions i [WHERE p.stream_category = :stream_category]
SearchJoin(query_vector, stream_category, join_disciplines) ==
    LET pe == db["program_embeddings"]
        keep == {k \in 1..Len(pe) :
            \E p \in Lookup(db["programs"], pe[k].program_id) :
                /\ (join_disciplines
                      => Lookup(db["disciplines"],
                                db["programs"][p].discipline_id) # {})
                /\ Lookup(db["institutions"], db["programs"][p].institution_id) # {}
                /\ (stream_category # ""
                      => db["programs"][p].stream_category = stream_category)}
        rows == SelectSeqBy(pe, keep)
    IN [k \in 1..Len(rows) |->
          LET p == db["programs"][CHOOSE x \in Lookup(db["programs"],
                                                     rows[k].program_id) : TRUE]
          IN [program_id |-> rows[k].program_id,
              chunk_text |-> rows[k].chunk_text,
              distance |-> Distance(rows[k].embedding, query_vector),
              discipline_name |->
                  IF join_disciplines
                  THEN db["disciplines"][CHOOSE x \in Lookup(db["disciplines"],
                                            p.discipline_id) : TRUE].name
                  ELSE "",
              institution_name |->
                  db["institutions"][CHOOSE x \in Lookup(db["institutions"],
                                        p.institution_id) : TRUE].name,
              stream_category |-> p.stream_category]]

\* ORDER BY distance: the orders the database may return the rows in (the
\* order of rows at the same distance is not specified)
Orders(rows) ==
    {f \in Permutations(1..Len(rows)) :
        \A i, j \in 1..Len(rows) :
            i < j => rows[f[i]].distance <= rows[f[j]].distance}

\* LIMIT :top_k on the rows in order f
Limit(rows, f, top_k) ==
    [i \in 1..(IF top_k < Len(rows) THEN top_k ELSE Len(rows)) |-> rows[f[i]]]

\* the raw hits as the response record keeps them
Hits(results) ==
    [i \in 1..Len(results) |-> [program_id |-> results[i].program_id,
                                chunk_text |-> results[i].chunk_text,
                                distance |-> results[i].distance,
                                stream_category |-> results[i].stream_category]]

\* a dict overwritten by every hit: the last hit of every program is kept
Deduplicate_keeps_last(hits) ==
    SelectSeqBy(hits, {i \in 1..Len(hits) :
                          \A j \in (i + 1)..Len(hits) :
                              hits[j].program_id # hits[i].program_id})

\* the dict `seen`: the first hit of every program, in order of first insertion
Deduplicate(hits) ==
    SelectSeqBy(hits, {i \in 1..Len(hits) :
                          \A j \in 1..(i - 1) :
                              hits[j].program_id # hits[i].program_id})

\* the embedding table is being rebuilt: dropped and recreated, the batches
\* and the index not yet all committed
MidBuild ==
    /\ status["db_embeddings"] = "running"
    /\ At("db_embeddings", "commit") # {}

\* a request that deletes the rows it has served
get_session_deletes_served ==
    /\ db' = [db EXCEPT !["program_embeddings"] = <<>>]
    /\ UNCHANGED <<files, sel, status, out, mat, pc, sess, ops, prior, loaded>>

\* get_session: the session of a request is closed without a commit, and the
\* endpoints execute SELECT statements only
get_session == UNCHANGED pipelineVars

\* the category filter applied to the top_k rows instead of before the limit
semantic_search_filters_after_limit(q, top_k, stream_category) ==
    LET rows == SearchJoin(EmbedQuery(q), "", TRUE)
    IN \E f \in Orders(rows) :
          LET limited == Limit(rows, f, top_k)
              results == SelectSeqBy(limited,
                  {k \in 1..Len(limited) :
                      stream_category # ""
                      => limited[k].stream_category = stream_category})
              unique_results == Deduplicate(results)
          IN /\ resp' = [endpoint |-> "semantic-search",
                         code |-> 200,
                         results |-> [i \in 1..Len(unique_results) |->
                            [program_id |-> unique_results[i].program_id,
                             chunk_text |-> unique_results[i].chunk_text,
                             similarity_score |->
                                 Similarity(unique_results[i].distance),
                             discipline_name |->
                                 unique_results[i].discipline_name,
                             institution_name |->
                                 unique_results[i].institution_name,
                             stream_category |->
                                 unique_results[i].stream_category]],
                         total |-> Len(unique_results),
                         hits |-> Hits(results),
                         llm_invoked |-> FALSE,
                         llm |-> NoLLM,
                         midBuild |-> MidBuild,
                         q |-> q,
                         top_k |-> top_k,
                         stream_category |-> stream_category]
             /\ singletons' = [singletons EXCEPT !.embeddings = LazyLoad(@)]
             /\ constructed' = [constructed EXCEPT !.embeddings =
                                   @ + Built(singletons.embeddings)]
             /\ UNCHANGED threads
             /\ get_session

semantic_search(q, top_k, stream_category) ==
    LET rows == SearchJoin(EmbedQuery(q), stream_category, TRUE)
    IN \E f \in Orders(rows) :
          LET results == Limit(rows, f, top_k)
              unique_results == Deduplicate(results)
          IN /\ resp' = [endpoint |-> "semantic-search",
                         code |-> 200,
                         results |-> [i \in 1..Len(unique_results) |->
                            [program_id |-> unique_results[i].program_id,
                             chunk_text |-> unique_results[i].chunk_text,
                             similarity_score |->
                                 Similarity(unique_results[i].distance),
                             discipline_name |->
                                 unique_results[i].discipline_name,
                             institution_name |->
                                 unique_results[i].institution_name,
                             stream_category |->
                                 unique_results[i].stream_category]],
                         total |-> Len(unique_results),
                         hits |-> Hits(results),
                         llm_invoked |-> FALSE,
                         llm |-> NoLLM,
                         midBuild |-> MidBuild,
                         q |-> q,
                         top_k |-> top_k,
                         stream_category |-> stream_category]
             /\ singletons' = [singletons EXCEPT !.embeddings = LazyLoad(@)]
             /\ constructed' = [constructed EXCEPT !.embeddings =
                                   @ + Built(singletons.embeddings)]
             /\ UNCHANGED threads
             /\ get_session

\* what llm.invoke does: an answer, or an exception with its message (held
\* as its words).  Whether the failure is the service being unreachable and
\* what the message says are both the collaborator's: a refused connection,
\* a connection attempt that times out, the client's own "Failed to connect"
\* error, a connection reset while the model generates, an unknown model.
LLMOutcomes ==
    { [raised |-> FALSE, unreachable |-> FALSE, msg |-> <<"answer">>],
      [raised |-> TRUE, unreachable |-> TRUE, msg |-> <<"Connection", "refused">>],
      [raised |-> TRUE, unreachable |-> TRUE,
       msg |-> <<"Failed", "to", "connect", "to", "Ollama">>],
      [raised |-> TRUE, unreachable |-> FALSE,
       msg |-> <<"Connection", "reset", "by", "peer">>],
      [raised |-> TRUE, unreachable |-> FALSE,
       msg |-> <<"model", "mistral", "not", "found">>] }

\* Python's `word in message`, on a message held as its sequence of words
InMessage(word, msg) == \E i \in 1..Len(msg) : msg[i] = word

\* the LLM called before the no-hits check
Answer_generates_first(results, source_chunks, llm) ==
    LET failed == [endpoint |-> "qa", code |-> 500, results |-> <<>>,
                   total |-> 0, hits |-> Hits(results),
                   llm_invoked |-> TRUE, llm |-> llm, midBuild |-> MidBuild,
                   q |-> "", top_k |-> 0, stream_category |-> ""]
    IN IF llm.raised
       THEN IF InMessage("Connection", llm.msg) \/ InMessage("refused", llm.msg)
            THEN [failed EXCEPT !.code = 503]
            ELSE failed
       ELSE IF results = <<>>
       THEN [failed EXCEPT !.code = 404]
       ELSE [failed EXCEPT !.code = 200, !.results = source_chunks,
                           !.total = Len(source_chunks)]

\* question_answer from `if not results` on: the 404, or the call of the LLM
\* in the try block and the response or the HTTPException it ends in
Answer(results, source_chunks, llm) ==
    LET failed == [endpoint |-> "qa", code |-> 500, results |-> <<>>,
                   total |-> 0, hits |-> Hits(results),
                   llm_invoked |-> TRUE, llm |-> llm, midBuild |-> MidBuild,
                   q |-> "", top_k |-> 0, stream_category |-> ""]
    IN IF results = <<>>
       THEN [failed EXCEPT !.code = 404, !.llm_invoked = FALSE, !.llm = NoLLM]
       ELSE IF ~ llm.raised
       THEN [failed EXCEPT !.code = 200, !.results = source_chunks,
                           !.total = Len(source_chunks)]
       ELSE IF InMessage("Connection", llm.msg) \/ InMessage("refused", llm.msg)
       THEN [failed EXCEPT !.code = 503]
       ELSE failed

question_answer(q, top_k, llm) ==
    LET rows == SearchJoin(EmbedQuery(q), "", FALSE)
    IN \E f \in Orders(rows) :
          LET results == Limit(rows, f, top_k)
              source_chunks == [i \in 1..Len(results) |->
                  [institution_name |-> results[i].institution_name,
                   chunk_text |-> results[i].chunk_text]]
              answer == Answer(results, source_chunks, llm)
          IN /\ resp' = [answer EXCEPT !.q = q, !.top_k = top_k]
             /\ singletons' = [embeddings |-> LazyLoad(singletons.embeddings),
                               llm |-> IF answer.llm_invoked
                                       THEN LazyLoad(singletons.llm)
                                       ELSE singletons.llm]
             /\ constructed' =
                   [embeddings |-> constructed.embeddings
                                      + Built(singletons.embeddings),
                    llm |-> constructed.llm
                               + IF answer.llm_invoked
                                 THEN Built(singletons.llm) ELSE 0]
             /\ UNCHANGED threads
             /\ get_session

\* the parameters of the requests the model sends
Queries == {"anesthesia"}

\* the largest top_k the model sends
MaxTopK == 3

Categories == {"", "IMG"}

SemanticSearch ==
    \E q \in Queries, top_k \in 1..MaxTopK, c \in Categories :
        semantic_search(q, top_k, c)

QuestionAnswer ==
    \E q \in Queries, top_k \in 1..MaxTopK, llm \in LLMOutcomes :
        question_answer(q, top_k, llm)

InitServe ==
    /\ Init
    /\ files = DataFile(GoodDisciplines, GoodPrograms, GoodSections, GoodMarkdown)

\* The endpoints read the committed tables only, which the database stages
\* write one after the other (db_descriptions, which alone may overlap
\* db_embeddings, writes a table no endpoint reads).  Next to the requests the
\* stages are therefore run in one schedule, the order of all_assets: a stage
\* has its turn once every asset listed before it has materialized.
ExecutionOrder ==
    <<"raw_disciplines", "raw_programs", "raw_sections", "raw_markdown",
      "stg_disciplines", "stg_institutions", "stg_programs", "stg_sections",
      "db_disciplines", "db_institutions", "db_programs", "db_descriptions",
      "chunked_documents", "db_embeddings">>

Turn(s) ==
    \A i \in 1..Len(ExecutionOrder) :
        ExecutionOrder[i] = s =>
            \A j \in 1..(i - 1) : status[ExecutionOrder[j]] = "done"

\* the response is handed to the caller: the request is over
ReturnResponse ==
    /\ resp # NoResponse
    /\ resp' = NoResponse
    /\ UNCHANGED <<pipelineVars, singletons, threads, constructed>>

\* no request is being answered
Idle == resp = NoResponse

\* runs of the whole pipeline on valid data, and requests at any point of
\* them: a request is answered in one step from what is committed at that
\* point, and handed back before the next step
NextServe ==
    \/ Idle /\ StartRun(all_assets)
    \/ Idle /\ Turn("raw_disciplines") /\ RawDisciplines
    \/ Idle /\ Turn("raw_programs") /\ RawPrograms
    \/ Idle /\ Turn("raw_sections") /\ RawSections
    \/ Idle /\ Turn("raw_markdown") /\ RawMarkdownStage
    \/ Idle /\ Turn("stg_disciplines") /\ StgDisciplines
    \/ Idle /\ Turn("stg_institutions") /\ StgInstitutions
    \/ Idle /\ Turn("stg_programs") /\ StgPrograms
    \/ Idle /\ Turn("stg_sections") /\ StgSections
    \/ Idle /\ Turn("chunked_documents") /\ ChunkedDocuments
    \/ Idle /\ Turn("db_disciplines") /\ DbDisciplines
    \/ Idle /\ Turn("db_institutions") /\ DbInstitutions
    \/ Idle /\ Turn("db_programs") /\ DbPrograms
    \/ Idle /\ Turn("db_descriptions") /\ DbDescriptions
    \/ Idle /\ Turn("db_embeddings") /\ DbEmbeddings
    \/ Idle /\ SemanticSearch
    \/ Idle /\ QuestionAnswer
    \/ ReturnResponse

\* the API serving requests while full runs of the pipeline rebuild the database
SpecServe == InitServe /\ [][NextServe]_vars

------------------------------------------------------------------------------
(* get_embeddings / get_llm called from the threads of the request pool *)

\* The endpoints are plain `def` functions, which FastAPI runs in the threads
\* of its pool; get_embeddings and get_llm take no lock, so a thread may be
\* anywhere in them while another runs.  One step per statement, the
\* constructor call and the store to the global being two steps.

\* a thread enters get_embeddings() or get_llm()
Call(t, h) ==
    /\ threads[t].pc = "idle"
    /\ threads' = [threads EXCEPT ![t].pc = "check", ![t].fn = h]
    /\ UNCHANGED <<pipelineVars, singletons, resp, constructed>>

\* `if _embeddings is None:`
CheckNone(t) ==
    /\ threads[t].pc = "check"
    /\ threads' = [threads EXCEPT ![t].pc =
                      IF singletons[threads[t].fn] = NoInstance
                      THEN "construct" ELSE "return"]
    /\ UNCHANGED <<pipelineVars, singletons, resp, constructed>>

\* HuggingFaceEmbeddings(...) / OllamaLLM(...): the constructor runs
Construct(t) ==
    /\ threads[t].pc = "construct"
    /\ constructed' = [constructed EXCEPT ![threads[t].fn] = @ + 1]
    /\ threads' = [threads EXCEPT ![t].pc = "assign"]
    /\ UNCHANGED <<pipelineVars, singletons, resp>>

\* `_embeddings = ...`: the new instance is stored in the global
Assign(t) ==
    /\ threads[t].pc = "assign"
    /\ singletons' = [singletons EXCEPT ![threads[t].fn] = t]
    /\ threads' = [threads EXCEPT ![t].pc = "return"]
    /\ UNCHANGED <<pipelineVars, resp, constructed>>

\* `return _embeddings`: the caller receives what the global holds now
ReturnHandle(t) ==
    /\ threads[t].pc = "return"
    /\ threads' = [threads EXCEPT ![t].pc = "idle", ![t].fn = "",
                                  ![t].got[threads[t].fn] =
                                      singletons[threads[t].fn]]
    /\ UNCHANGED <<pipelineVars, singletons, resp, constructed>>

NextLazy ==
    \/ \E t \in Threads, h \in Handles : Call(t, h)
    \/ \E t \in Threads : CheckNone(t)
    \/ \E t \in Threads : Construct(t)
    \/ \E t \in Threads : Assign(t)
    \/ \E t \in Threads : ReturnHandle(t)

\* the request threads calling get_embeddings and get_llm in any interleaving
SpecLazy == InitServe /\ [][NextLazy]_vars

------------------------------------------------------------------------------
(* Reading the statement history of a stage *)

\* the tables stage s has deleted in its current run, in order
DeletedTables(s) ==
    LET dels == SelectSeqBy(ops[s], At(s, "delete"))
    IN [i \in 1..Len(dels) |-> dels[i][2]]

IsPrefix(a, b) == Len(a) <= Len(b) /\ SubSeq(b, 1, Len(a)) = a

\* the database stages that run after s: those that declare s, or a stage
\* after s, in their deps
RECURSIVE StagesAfter(_, _)
StagesAfter(S, k) ==
    IF k = 0 THEN S
    ELSE StagesAfter(S \cup {d \in DbStages : Deps(d) \cap S # {}}, k - 1)

\* the tables loaded by s and by the stages after it
DependentTables(s) == {Target(d) : d \in StagesAfter({s}, Cardinality(DbStages))}

ReverseDependencyOrder ==
    <<"program_embeddings", "program_descriptions", "programs",
      "institutions", "disciplines">>

\* the target of s and every table depending on it, in reverse-dependency order
ExpectedDeletes(s) ==
    LET T == DependentTables(s)
    IN SelectSeqBy(ReverseDependencyOrder,
                   {i \in 1..Len(ReverseDependencyOrder) :
                       ReverseDependencyOrder[i] \in T})

------------------------------------------------------------------------------
(* C1 *)

\* C1: in every load stage the deletes follow the reverse-dependency order
\* embeddings, descriptions, programs, institutions, disciplines (the target
\* and every table depending on it), and all of them are executed and
\* committed before the stage's first insert; no delete follows an insert.
C1_DeletesBeforeInserts ==
    \A s \in LoadStages :
        /\ IsPrefix(DeletedTables(s), ExpectedDeletes(s))
        /\ \A i \in At(s, "add_all") :
              /\ DeletedTables(s) = ExpectedDeletes(s)
              /\ \A d \in At(s, "delete") : d < i
              /\ \E c \in At(s, "commit") :
                    c < i /\ \A d \in At(s, "delete") : d < c

\* db_disciplines has replaced a loaded database: five deletes, then its insert
C1_Witness ==
    /\ status["db_disciplines"] = "done"
    /\ prior["db_disciplines"] # <<>>
    /\ DeletedTables("db_disciplines") = ReverseDependencyOrder
    /\ status["db_programs"] = "done"
    /\ Len(DeletedTables("db_programs")) = 3
    /\ db["programs"] # <<>>

------------------------------------------------------------------------------
(* C2 *)

\* the statement a running database stage is about to execute
NextStmt(s) == Stmts(s)[pc[s]]

\* C2: whatever stages were run before, and in whatever state they left the
\* database, no delete statement of a stage raises a foreign-key violation:
\* the rows it removes are referenced by no row the transaction still sees.
C2_NoForeignKeyViolationOnDelete ==
    \A s \in DbStages :
        (status[s] = "running" /\ pc[s] <= Len(Stmts(s))
            /\ NextStmt(s).op = "delete")
        => ~ ForeignKeyViolationOnDelete(sess[s], NextStmt(s).table)

\* db_institutions, run alone on a loaded database, is about to delete the
\* institutions that committed programs (with descriptions) still reference
C2_Witness ==
    /\ sel = {"db_institutions"}
    /\ status["db_institutions"] = "running"
    /\ NextStmt("db_institutions") = Delete("institutions")
    /\ db["programs"] # <<>>
    /\ db["program_descriptions"] # <<>>
    /\ db["program_embeddings"] # <<>>

------------------------------------------------------------------------------
(* C3 *)

\* the rows a load stage inserts
NewRows(s) ==
    LET adds == SelectSeqBy(Stmts(s),
                    {i \in 1..Len(Stmts(s)) : Stmts(s)[i].op = "add_all"})
        RECURSIVE Concat(_)
        Concat(q) == IF q = <<>> THEN <<>> ELSE Head(q).rows \o Concat(Tail(q))
    IN Concat(adds)

------------------------------------------------------------------------------
(* C4 *)

\* C4 (as claimed): once a load stage has ended, by success or by failure at
\* any point, its target table holds exactly the new data or still holds the
\* data it held when the stage began.
C4_AllOrNothing ==
    \A s \in LoadStages :
        (status[s] \in {"done", "failed"} /\ pc[s] >= 1)
        => (db[Target(s)] = NewRows(s) \/ db[Target(s)] = prior[s])

------------------------------------------------------------------------------
(* C5 *)

BatchedStages == {"db_descriptions", "db_embeddings"}

BatchSize(s) ==
    IF s = "db_descriptions" THEN DescriptionBatchSize ELSE EmbeddingBatchSize

\* the records of a batched stage, in list order
Records(s) ==
    IF s = "db_descriptions"
    THEN [i \in 1..Len(out["stg_sections"]) |->
            [program_id |-> out["stg_sections"][i].program_id,
             section_name |-> out["stg_sections"][i].section_name,
             content |-> out["stg_sections"][i].content]]
    ELSE [i \in 1..Len(out["chunked_documents"]) |->
            [program_id |-> out["chunked_documents"][i].program_id,
             chunk_index |-> out["chunked_documents"][i].chunk_index,
             chunk_text |-> out["chunked_documents"][i].chunk_text,
             embedding |-> Encode(out["chunked_documents"][i].chunk_text)]]

\* the insert batches stage s has committed in its current run
CommittedBatches(s) ==
    Cardinality({i \in At(s, "add_all") : i + 1 \in At(s, "commit")})

\* the first n batches of the records
FirstBatches(s, n) ==
    SubSeq(Records(s), 1,
           IF n * BatchSize(s) < Len(Records(s))
           THEN n * BatchSize(s) ELSE Len(Records(s)))

\* C5: from the commit that empties the table on, whether the stage is still
\* running, has crashed at any point or has finished, the table of a batched
\* stage holds exactly the rows of the batches committed so far, in list
\* order: batches 1..N and no row of a later batch.
C5_CommittedPrefix ==
    \A s \in BatchedStages :
        At(s, "commit") # {}
        => db[Target(s)] = FirstBatches(s, CommittedBatches(s))

\* db_descriptions failed after its first batch of two: two of three rows stay
C5_Witness ==
    /\ status["db_descriptions"] = "failed"
    /\ CommittedBatches("db_descriptions") = 1
    /\ Len(Records("db_descriptions")) = 3
    /\ Len(db["program_descriptions"]) = 2
    /\ sess["db_descriptions"] = NoSession

------------------------------------------------------------------------------
(* C6 *)

\* the stages that assert on their data
ValidationStages == {"stg_disciplines", "stg_institutions", "stg_programs"}

\* a load stage has committed a delete or an insert in the current run
LoadCommitted == \E s \in LoadStages : At(s, "commit") # {}

\* C6 (as claimed): in a run of the whole pipeline, once a load stage has
\* committed, every validation stage has evaluated its assertions.
C6_ValidationBeforeAnyLoadCommit ==
    (sel = all_assets /\ LoadCommitted)
    => \A v \in ValidationStages : status[v] \in {"done", "failed"}

------------------------------------------------------------------------------
(* C7 *)

\* stage s has begun in the current run
Begun(s) == status[s] \in {"running", "done", "failed"}

\* stage s has executed an insert in the current run
Inserted(s) == At(s, "add_all") # {}

\* stage s has run to its end and holds no open transaction
Completed(s) ==
    /\ status[s] = "done"
    /\ s \in DbStages => (sess[s] = NoSession /\ pc[s] = Len(Stmts(s)) + 1)

\* C7: a stage that has begun has all its selected upstream stages completed
\* and committed; so in a full run institutions are inserted after
\* disciplines, programs after both, descriptions and embeddings after programs.
C7_DependencyOrder ==
    /\ \A s \in sel : Begun(s) => \A u \in Upstream(s) \cap sel : Completed(u)
    /\ sel = all_assets =>
          /\ Inserted("db_institutions") => Completed("db_disciplines")
          /\ Inserted("db_programs") =>
                Completed("db_disciplines") /\ Completed("db_institutions")
          /\ Inserted("db_descriptions") => Completed("db_programs")
          /\ Inserted("db_embeddings") => Completed("db_programs")

\* descriptions and embeddings are being inserted side by side in a full run
C7_Witness ==
    /\ sel = all_assets
    /\ Inserted("db_descriptions") /\ status["db_descriptions"] = "running"
    /\ Inserted("db_embeddings") /\ status["db_embeddings"] = "running"
    /\ db["programs"] # <<>>

------------------------------------------------------------------------------
(* C8 *)

\* the number of batches a list of n records is inserted in
BatchCount(n, size) == (n + size - 1) \div size

\* C8: when db_embeddings creates the index, every batch of the generation
\* has been inserted and committed and the table holds all its records; no
\* insert follows the index creation, which only its commit follows.
C8_IndexAfterLastBatch ==
    \A i \in At("db_embeddings", "create_index") :
        /\ \A a \in At("db_embeddings", "add_all") :
              a < i /\ a + 1 \in At("db_embeddings", "commit")
        /\ CommittedBatches("db_embeddings")
              = BatchCount(Len(out["chunked_documents"]), EmbeddingBatchSize)
        /\ db["program_embeddings"] = Records("db_embeddings")
        /\ \A j \in (i + 1)..Len(ops["db_embeddings"]) :
              ops["db_embeddings"][j][1] = "commit"

\* the index is built over a generation of two batches
C8_Witness ==
    /\ status["db_embeddings"] = "done"
    /\ At("db_embeddings", "create_index") # {}
    /\ CommittedBatches("db_embeddings") = 2
    /\ db["index"]

------------------------------------------------------------------------------
(* C10 *)

\* C10: once db_embeddings has completed, the embedding table holds exactly
\* one record per chunk of the chunk list, with the chunk's program_id,
\* chunk_index, chunk_text and the vector of that chunk's text, and nothing
\* of the generation it replaced.
C10_GenerationReplaced ==
    status["db_embeddings"] = "done"
    => /\ Len(db["program_embeddings"]) = Len(out["chunked_documents"])
       /\ \A i \in 1..Len(out["chunked_documents"]) :
             LET chunk == out["chunked_documents"][i]
                 row == db["program_embeddings"][i]
             IN /\ row.program_id = chunk.program_id
                /\ row.chunk_index = chunk.chunk_index
                /\ row.chunk_text = chunk.chunk_text
                /\ row.embedding = Encode(chunk.chunk_text)

\* db_embeddings, re-run alone over a table that held a generation, completed
C10_Witness ==
    /\ sel = {"db_embeddings"}
    /\ status["db_embeddings"] = "done"
    /\ Len(prior["db_embeddings"]) = 3
    /\ Len(db["program_embeddings"]) = 3

------------------------------------------------------------------------------
(* C9 *)

\* C9 (as claimed): no retrieval is answered from the embedding table while
\* db_embeddings is rebuilding it, between the commit of the drop and
\* recreate and the commit of the index.
C9_NeverQueriedMidBuild == ~ resp.midBuild

\* a search answered from the first batch alone of a generation of two batches
C9_PartialGenerationServed ==
    /\ resp.endpoint = "semantic-search"
    /\ resp.midBuild
    /\ resp.total = 1
    /\ Len(db["program_embeddings"]) = EmbeddingBatchSize
    /\ Len(out["chunked_documents"]) > EmbeddingBatchSize

------------------------------------------------------------------------------
(* C11 *)

\* the rows of a chunk list or of the embedding table that belong to program p
ChunksOf(rows, p) ==
    SelectSeqBy(rows, {k \in 1..Len(rows) : rows[k].program_id = p})

\* the (program_id, chunk_index, chunk_text) of the rows, in order
ChunkKeys(rows) ==
    [k \in 1..Len(rows) |-> [program_id |-> rows[k].program_id,
                             chunk_index |-> rows[k].chunk_index,
                             chunk_text |-> rows[k].chunk_text]]

\* C11: the markdown list holding one entry per program-stream, the chunks
\* of every program carry the indices 0..n-1 without gap or duplicate, in the
\* order split_text cut them from the program's document; the embedding
\* table holds the chunks in the order of the chunk list (a prefix of it
\* while the batches are being inserted, all of it once db_embeddings is done).
C11_ChunkIndexContiguous ==
    LET chunks == out["chunked_documents"]
    IN /\ "chunked_documents" \in mat =>
             \A e \in 1..Len(out["raw_markdown"]) :
                 LET entry == out["raw_markdown"][e]
                     mine == ChunksOf(chunks, ProgramStreamId(entry))
                     text == split_text(entry.page_content)
                 IN /\ Len(mine) = Len(text)
                    /\ \A i \in 1..Len(mine) :
                          /\ mine[i].chunk_index = i - 1
                          /\ mine[i].chunk_text = text[i]
       /\ \A k \in 1..Len(chunks) :
             \E e \in 1..Len(out["raw_markdown"]) :
                 ProgramStreamId(out["raw_markdown"][e]) = chunks[k].program_id
       /\ IsPrefix(ChunkKeys(db["program_embeddings"]), ChunkKeys(chunks))
       /\ status["db_embeddings"] = "done" =>
             /\ ChunkKeys(db["program_embeddings"]) = ChunkKeys(chunks)
             /\ \A r \in 1..Len(db["program_embeddings"]) :
                   LET row == db["program_embeddings"][r]
                   IN Len(ChunksOf(db["program_embeddings"], row.program_id))
                         > row.chunk_index

\* a program of two chunks and a program of one chunk have been persisted
C11_Witness ==
    /\ status["db_embeddings"] = "done"
    /\ Len(ChunksOf(db["program_embeddings"], 1)) = 2
    /\ ChunksOf(db["program_embeddings"], 1)[2].chunk_index = 1
    /\ Len(ChunksOf(db["program_embeddings"], 2)) = 1
    /\ ChunksOf(db["program_embeddings"], 2)[1].chunk_index = 0

------------------------------------------------------------------------------
(* C12 *)

\* the rank in the raw hits of the first hit of program p
FirstHit(hits, p) == Min({k \in 1..Len(hits) : hits[k].program_id = p})

\* C12: the raw hits coming in ascending distance, semantic_search answers
\* with exactly one result per program of the hits, that result being the
\* program's first (lowest-distance) hit; the results keep the order of the
\* hits, so their similarity never increases, and total counts them.
C12_OneResultPerProgram ==
    resp.endpoint = "semantic-search" =>
        LET hits == resp.hits
            results == resp.results
        IN /\ \A k, l \in 1..Len(hits) :
                 k < l => hits[k].distance <= hits[l].distance
           /\ resp.code = 200
           /\ resp.total = Len(results)
           /\ {results[i].program_id : i \in 1..Len(results)}
                 = {hits[k].program_id : k \in 1..Len(hits)}
           /\ \A i, j \in 1..Len(results) :
                 /\ results[i].program_id = results[j].program_id => i = j
                 /\ i < j => /\ FirstHit(hits, results[i].program_id)
                                   < FirstHit(hits, results[j].program_id)
                             /\ results[i].similarity_score
                                   >= results[j].similarity_score
           /\ \A i \in 1..Len(results) :
                 LET first == hits[FirstHit(hits, results[i].program_id)]
                 IN /\ results[i].chunk_text = first.chunk_text
                    /\ results[i].similarity_score = Similarity(first.distance)
                    /\ \A k \in 1..Len(hits) :
                          hits[k].program_id = results[i].program_id
                          => Similarity(hits[k].distance)
                                <= results[i].similarity_score

\* three hits, the third a farther chunk of the program of an earlier hit:
\* two results
C12_Witness ==
    /\ resp.endpoint = "semantic-search"
    /\ Len(resp.hits) = 3
    /\ resp.total = 2
    /\ \E k \in 1..2 :
          /\ resp.hits[k].program_id = resp.hits[3].program_id
          /\ resp.hits[k].distance < resp.hits[3].distance

------------------------------------------------------------------------------
(* C13 *)

\* C13: question_answer answers 404 exactly when its retrieval returned no
\* row, and in that call it has reached neither get_llm() nor llm.invoke.
C13_NotFoundBeforeGeneration ==
    resp.endpoint = "qa" =>
        /\ resp.hits = <<>> <=> resp.code = 404
        /\ resp.hits = <<>> => (~ resp.llm_invoked /\ resp.llm = NoLLM)
        /\ resp.hits # <<>> => resp.llm_invoked

\* a 404 while the tables are being reloaded, the LLM having been constructed
\* by an earlier request
C13_Witness ==
    /\ resp.endpoint = "qa"
    /\ resp.code = 404
    /\ ~ resp.llm_invoked
    /\ singletons.llm # NoInstance
    /\ db["programs"] = <<>>

------------------------------------------------------------------------------
(* C14 *)

\* C14 (as claimed): a failed generation is answered 503 if and only if the
\* LLM service was unreachable, 500 otherwise, and never 404.
C14_UnavailableIffUnreachable ==
    (resp.endpoint = "qa" /\ resp.llm.raised) =>
        /\ resp.code \in {500, 503}
        /\ resp.code = 503 <=> resp.llm.unreachable

\* the service is unreachable and the request is answered 500
C14_UnreachableAnswered500 ==
    /\ resp.endpoint = "qa"
    /\ resp.llm.raised
    /\ resp.llm.unreachable
    /\ resp.code = 500

------------------------------------------------------------------------------
(* C15 *)

\* C15 (as claimed): a request changes no shared state at all.
C15_NoSharedStateWritten ==
    [][apiVars' # apiVars => UNCHANGED <<pipelineVars, singletons>>]_vars

\* C15: a request changes no table, not the embedding table nor its index,
\* and nothing of the pipeline; the one shared state it writes is the lazily
\* constructed singletons, which once constructed stay.
C15_ReadOnly ==
    [][apiVars' # apiVars =>
          /\ UNCHANGED pipelineVars
          /\ \A h \in Handles :
                singletons[h] # NoInstance => singletons'[h] = singletons[h]]_vars

\* requests served from a loaded database, both singletons constructed
C15_Witness ==
    /\ resp.endpoint = "qa"
    /\ resp.code = 200
    /\ resp.total = 3
    /\ singletons.embeddings # NoInstance /\ singletons.llm # NoInstance
    /\ Len(db["program_embeddings"]) = 3
    /\ FullRunDone

------------------------------------------------------------------------------
(* C19 *)

\* C19 (as claimed): a failed stage is not executed again within its run, and
\* once a stage of a run has failed no stage of that run that has not begun
\* begins: a pending stage stays pending until the next run is started.
C19_FailureHaltsRun ==
    [][(\E s \in all_assets : status[s] = "failed") =>
          \A t \in all_assets :
              /\ status[t] = "failed" =>
                    status'[t] \in {"failed", "pending", "idle"}
              /\ status[t] = "pending" =>
                    status'[t] \in {"pending", "idle"}]_vars

\* the part that holds: a failed stage stays failed until the next run starts
C19_NoRetry ==
    [][\A t \in all_assets :
          (status[t] = "failed" /\ status'[t] # "failed") =>
              /\ RunOver
              /\ \A u \in all_assets : status'[u] \in {"pending", "idle"}]_vars

\* stg_institutions has failed and db_disciplines, which does not depend on
\* it, has loaded its table in the same run
C19_StageRanAfterFailure ==
    /\ sel = all_assets
    /\ status["stg_institutions"] = "failed"
    /\ status["db_disciplines"] = "done"
    /\ status["db_institutions"] = "pending"
    /\ db["disciplines"] # <<>>

------------------------------------------------------------------------------
(* C16 *)

\* the school names of the program rows (groupby leaves the NaN key out)
SchoolNames(raw_programs) ==
    {raw_programs[i].school_name : i \in 1..Len(raw_programs)} \ {NaNText}

\* the school ids the rows of a school carry
SchoolIds(raw_programs, name) ==
    {raw_programs[i].school_id :
        i \in {j \in 1..Len(raw_programs) : raw_programs[j].school_name = name}}

\* C16: stg_institutions fails exactly when the number of distinct school
\* names is not the expected one or two schools have the same smallest id;
\* otherwise its output holds one row per distinct school name, whose id is
\* the smallest school_id of the rows of that school and whose language is
\* 'fr' exactly for the schools of the French set.
C16_InstitutionsDerived ==
    LET raw == out["raw_programs"]
        names == SchoolNames(raw)
        institutions == out["stg_institutions"]
        invalid ==
            \/ Cardinality(names) # ExpectedInstitutions
            \/ \E m, n \in names :
                  /\ m # n
                  /\ \E x \in SchoolIds(raw, m) \cap SchoolIds(raw, n) :
                        \A y \in SchoolIds(raw, m) \cup SchoolIds(raw, n) : x <= y
    IN /\ status["stg_institutions"] = "failed" => invalid
       /\ status["stg_institutions"] = "done" =>
             /\ ~ invalid
             /\ Len(institutions) = Cardinality(names)
             /\ \A n \in names :
                   \E k \in 1..Len(institutions) :
                       /\ institutions[k].name = n
                       /\ institutions[k].id \in SchoolIds(raw, n)
                       /\ \A x \in SchoolIds(raw, n) : institutions[k].id <= x
                       /\ institutions[k].language = "fr" <=> n \in FRENCH_SCHOOLS
                       /\ institutions[k].language \in {"fr", "en"}
                       /\ \A l \in 1..Len(institutions) :
                             institutions[l].name = n => l = k

\* a school whose rows carry two ids got the smaller one, next to a French
\* school
C16_Witness ==
    /\ status["stg_institutions"] = "done"
    /\ \E k, l \in 1..Len(out["stg_institutions"]) :
          /\ out["stg_institutions"][l].language = "fr"
          /\ \E i \in 1..Len(out["raw_programs"]) :
                /\ out["raw_programs"][i].school_name
                      = out["stg_institutions"][k].name
                /\ out["raw_programs"][i].school_id
                      > out["stg_institutions"][k].id

\* stg_institutions has failed on two schools that share their smallest id
C16_DuplicateIdsFail ==
    /\ status["stg_institutions"] = "failed"
    /\ Cardinality(SchoolNames(out["raw_programs"])) = ExpectedInstitutions

------------------------------------------------------------------------------
(* C17 *)

\* the rows of raw_programs whose school is not among the institutions
Unmapped(raw_programs, institutions) ==
    {i \in 1..Len(raw_programs) :
        \A k \in 1..Len(institutions) :
            institutions[k].name # raw_programs[i].school_name}

\* C17: when a program row names a school that is not among the institutions
\* stg_programs fails; when it passes, every program row is in its output, in
\* order, with the id of the institution of its school.
C17_UnmappedSchoolFails ==
    LET raw == out["raw_programs"]
        institutions == out["stg_institutions"]
        programs == out["stg_programs"]
    IN /\ (/\ status["stg_programs"] \in {"done", "failed"}
           /\ Unmapped(raw, institutions) # {})
          => status["stg_programs"] = "failed"
       /\ status["stg_programs"] = "done" =>
             /\ Len(programs) = Len(raw)
             /\ \A i \in 1..Len(raw) :
                   /\ programs[i].id = raw[i].program_stream_id
                   /\ programs[i].institution_id # NaN
                   /\ \E k \in 1..Len(institutions) :
                         /\ institutions[k].name = raw[i].school_name
                         /\ institutions[k].id = programs[i].institution_id

\* the institutions were derived, a row without a school name did not map,
\* stg_programs has failed and db_programs has not run
C17_Witness ==
    /\ status["stg_institutions"] = "done"
    /\ status["stg_programs"] = "failed"
    /\ Unmapped(out["raw_programs"], out["stg_institutions"]) # {}
    /\ status["db_programs"] = "pending"
    /\ "stg_programs" \notin mat

------------------------------------------------------------------------------
(* C18 *)

\* the markdown file holds an entry for the program
HasDocument(raw_markdown, pid) ==
    \E e \in 1..Len(raw_markdown) : ProgramStreamId(raw_markdown[e]) = pid

\* no paragraph of the text starts the quota pattern
NoQuotaPattern(text) ==
    \A k \in 1..Len(text) :
        ~ QuotaHeading(text[k]) /\ InlineQuota(text[k]) = NaN

\* no paragraph of the text starts the accreditation pattern
NoAccreditationPattern(text) ==
    \A k \in 1..Len(text) :
        ~ AccreditationLabel(text[k]) /\ InlineAccreditation(text[k]) = NaNText

\* C18: stg_programs fails for an unmapped school, a wrong row count or a
\* duplicate id only, never for what the markdown file holds; a program
\* without a document is read as one with the empty text, a text without the
\* quota (accreditation) pattern gives a null quota (accreditation), the row
\* is emitted all the same, and db_programs stores it with the nulls.
C18_MissingMarkdownIsNull ==
    LET raw == out["raw_programs"]
        markdown == out["raw_markdown"]
        programs == out["stg_programs"]
    IN /\ status["stg_programs"] = "failed" =>
             \/ Unmapped(raw, out["stg_institutions"]) # {}
             \/ Len(raw) # ExpectedPrograms
             \/ \E i, j \in 1..Len(raw) :
                   i # j /\ raw[i].program_stream_id = raw[j].program_stream_id
       /\ status["stg_programs"] = "done" =>
             /\ Len(programs) = Len(raw)
             /\ \A i \in 1..Len(raw) :
                   LET pid == raw[i].program_stream_id
                       text == MarkdownLookup(markdown, pid)
                   IN /\ programs[i].id = pid
                      /\ ~ HasDocument(markdown, pid) =>
                            /\ programs[i].quota = NaN
                            /\ programs[i].accreditation = NaNText
                      /\ NoQuotaPattern(text) => programs[i].quota = NaN
                      /\ NoAccreditationPattern(text) =>
                            programs[i].accreditation = NaNText
       /\ status["db_programs"] = "done" =>
             /\ Len(db["programs"]) = Len(programs)
             /\ \A i \in 1..Len(programs) :
                   /\ db["programs"][i].id = programs[i].id
                   /\ db["programs"][i].quota = programs[i].quota
                   /\ db["programs"][i].accreditation = programs[i].accreditation

\* a program without a document loaded with null quota and accreditation,
\* next to a program whose document gave both
C18_Witness ==
    /\ status["db_programs"] = "done"
    /\ \E i, j \in 1..Len(db["programs"]) :
          /\ ~ HasDocument(out["raw_markdown"], db["programs"][i].id)
          /\ db["programs"][i].quota = NaN
          /\ db["programs"][i].accreditation = NaNText
          /\ db["programs"][j].quota = 5
          /\ db["programs"][j].accreditation = "Accredited"

\* a document that holds the quota heading but no number after it: null quota
C18_HeadingWithoutNumber ==
    /\ status["stg_programs"] = "done"
    /\ \E i \in 1..Len(out["stg_programs"]) :
          LET text == MarkdownLookup(out["raw_markdown"],
                                     out["stg_programs"][i].id)
          IN /\ ~ NoQuotaPattern(text)
             /\ out["stg_programs"][i].quota = NaN

------------------------------------------------------------------------------
(* C20 *)

\* the label holds the three letters next to each other, each in either case
HoldsWord(stream, letters) ==
    \E i \in 1..(Len(stream) - 2) :
        \A k \in 1..3 : stream[i + k - 1] \in letters[k]

HoldsIMG(stream) == HoldsWord(stream, <<{"I", "i"}, {"M", "m"}, {"G", "g"}>>)

HoldsCMG(stream) == HoldsWord(stream, <<{"C", "c"}, {"M", "m"}, {"G", "g"}>>)

\* C20: the stream category of a program is 'IMG' when its stream label holds
\* IMG in any case (whether or not it holds CMG too), 'CMG' when it holds CMG
\* in any case and not IMG, and 'All' otherwise; db_programs stores it so.
C20_StreamCategory ==
    /\ status["stg_programs"] = "done" =>
          \A i \in 1..Len(out["stg_programs"]) :
              LET stream == out["raw_programs"][i].program_stream
                  category == out["stg_programs"][i].stream_category
              IN /\ out["stg_programs"][i].stream = stream
                 /\ HoldsIMG(stream) => category = "IMG"
                 /\ (HoldsCMG(stream) /\ ~ HoldsIMG(stream)) => category = "CMG"
                 /\ (~ HoldsCMG(stream) /\ ~ HoldsIMG(stream)) => category = "All"
    /\ status["db_programs"] = "done" =>
          \A i \in 1..Len(db["programs"]) :
              db["programs"][i].stream_category
                 = out["stg_programs"][i].stream_category

\* a label that holds both words categorised IMG, next to a label that holds
\* neither categorised All
C20_Witness ==
    /\ status["stg_programs"] = "done"
    /\ \E i, j \in 1..Len(out["stg_programs"]) :
          /\ HoldsCMG(out["stg_programs"][i].stream)
          /\ HoldsIMG(out["stg_programs"][i].stream)
          /\ out["stg_programs"][i].stream_category = "IMG"
          /\ ~ HoldsCMG(out["stg_programs"][j].stream)
          /\ ~ HoldsIMG(out["stg_programs"][j].stream)
          /\ out["stg_programs"][j].stream # <<>>
          /\ out["stg_programs"][j].stream_category = "All"

------------------------------------------------------------------------------
(* C21 *)

\* the rows of the embedding table that the query joins to a program of
\* category c
ChunksOfCategory(c) ==
    {k \in 1..Len(db["program_embeddings"]) :
        \E p \in 1..Len(db["programs"]) :
            /\ db["programs"][p].id = db["program_embeddings"][k].program_id
            /\ db["programs"][p].stream_category = c
            /\ \E d \in 1..Len(db["disciplines"]) :
                  db["disciplines"][d].id = db["programs"][p].discipline_id
            /\ \E i \in 1..Len(db["institutions"]) :
                  db["institutions"][i].id = db["programs"][p].institution_id}

\* row k of the embedding table is among the raw hits of the response
IsHit(k) ==
    \E h \in 1..Len(resp.hits) :
        /\ resp.hits[h].program_id = db["program_embeddings"][k].program_id
        /\ resp.hits[h].chunk_text = db["program_embeddings"][k].chunk_text

\* C21: with a category filter, every raw hit and every result of
\* semantic_search belongs to a program of that category, and the raw hits
\* are the top_k nearest of the chunks of that category: as many as top_k
\* allows, no chunk of the category left out being nearer than a hit.
C21_FilterBeforeLimit ==
    (resp.endpoint = "semantic-search" /\ resp.stream_category # "") =>
        LET c == resp.stream_category
            pe == db["program_embeddings"]
            candidates == ChunksOfCategory(c)
        IN /\ \A h \in 1..Len(resp.hits) : resp.hits[h].stream_category = c
           /\ \A i \in 1..Len(resp.results) :
                 resp.results[i].stream_category = c
           /\ Len(resp.hits) = IF resp.top_k < Cardinality(candidates)
                               THEN resp.top_k ELSE Cardinality(candidates)
           /\ \A h \in 1..Len(resp.hits) :
                 \E k \in candidates :
                     /\ resp.hits[h].program_id = pe[k].program_id
                     /\ resp.hits[h].chunk_text = pe[k].chunk_text
                     /\ resp.hits[h].distance
                           = Distance(pe[k].embedding, EmbedQuery(resp.q))
           /\ \A k \in candidates :
                 ~ IsHit(k) =>
                     \A h \in 1..Len(resp.hits) :
                         resp.hits[h].distance
                            <= Distance(pe[k].embedding, EmbedQuery(resp.q))

\* top_k = 1 with the IMG filter: the one hit is an IMG chunk, while a chunk
\* of a CMG program is as near to the query as the hit
C21_Witness ==
    /\ resp.endpoint = "semantic-search"
    /\ resp.stream_category = "IMG"
    /\ resp.top_k = 1
    /\ Len(resp.hits) = 1
    /\ resp.total = 1
    /\ \E k \in ChunksOfCategory("CMG") :
          Distance(db["program_embeddings"][k].embedding, EmbedQuery(resp.q))
             <= resp.hits[1].distance

------------------------------------------------------------------------------
(* C22 *)

\* the names of the section columns
SectionColumnSet == {SECTION_COLUMNS[c] : c \in 1..Len(SECTION_COLUMNS)}

\* the rows of raw_sections whose cell in column col holds `content` under
\* program id pid
CellsWith(raw_sections, pid, col, content) ==
    {r \in 1..Len(raw_sections) :
        /\ raw_sections[r].program_description_id = pid
        /\ raw_sections[r][col] = content}

\* the output rows (pid, col, content)
RowsWith(sections, pid, col, content) ==
    {k \in 1..Len(sections) :
        /\ sections[k].program_id = pid
        /\ sections[k].section_name = col
        /\ sections[k].content = content}

\* C22: the output of stg_sections holds, for every program row and every
\* section column, one row (program_id, section_name, content) when the cell
\* is not empty and none when it is; it holds no row of any other column.
C22_OneRowPerNonEmptyCell ==
    status["stg_sections"] = "done" =>
        LET raw == out["raw_sections"]
            sections == out["stg_sections"]
        IN /\ \A k \in 1..Len(sections) :
                 /\ sections[k].section_name \in SectionColumnSet
                 /\ sections[k].content # NaNText
                 /\ DOMAIN sections[k]
                       = {"program_id", "section_name", "content"}
           /\ \A r \in 1..Len(raw) : \A col \in SectionColumnSet :
                 LET pid == raw[r].program_description_id
                     content == raw[r][col]
                 IN Cardinality(RowsWith(sections, pid, col, content))
                       = IF content = NaNText THEN 0
                         ELSE Cardinality(CellsWith(raw, pid, col, content))
           /\ Len(sections)
                 = Cardinality({<<r, col>> \in (1..Len(raw)) \X SectionColumnSet :
                                   raw[r][col] # NaNText})

\* two program rows, an empty and a non-empty cell among them: fewer output
\* rows than cells
C22_Witness ==
    /\ status["stg_sections"] = "done"
    /\ Len(out["raw_sections"]) = 2
    /\ out["raw_sections"][1].program_name = NaNText
    /\ out["raw_sections"][1].interviews # NaNText
    /\ out["raw_sections"][2].program_name # NaNText
    /\ Len(out["stg_sections"]) \in 2..3

------------------------------------------------------------------------------
(* C23 *)

\* C23 (as claimed): whatever the interleaving of the calls, the constructor
\* of each handle runs at most once, and all callers of get_embeddings (of
\* get_llm) have received the same instance.
C23_ConstructedOnce ==
    \A h \in Handles :
        /\ constructed[h] <= 1
        /\ \A t, u \in Threads :
              (threads[t].got[h] # NoInstance /\ threads[u].got[h] # NoInstance)
              => threads[t].got[h] = threads[u].got[h]

\* two first calls of get_embeddings overlapped: the constructor has run
\* twice and the two callers hold different instances
C23_TwoInstances ==
    /\ constructed.embeddings = 2
    /\ \E t, u \in Threads :
          /\ threads[t].got.embeddings # NoInstance
          /\ threads[u].got.embeddings # NoInstance
          /\ threads[t].got.embeddings # threads[u].got.embeddings

------------------------------------------------------------------------------
(* C24 *)

\* the tables a load stage run alone is claimed to leave empty
EmptiedBy(s) ==
    CASE s = "db_disciplines" -> {"institutions", "programs",
                                  "program_descriptions", "program_embeddings"}
      [] s = "db_institutions" -> {"programs", "program_descriptions",
                                   "program_embeddings"}
      [] s = "db_programs" -> {"program_descriptions", "program_embeddings"}
      [] OTHER -> {}

\* a run of load stage s alone has completed
RanAlone(s) == sel = {s} /\ status[s] = "done"

\* every description and embedding row references a program of the table
ProgramsReferenced ==
    \A t \in {"program_descriptions", "program_embeddings"} :
        \A i \in 1..Len(db[t]) :
            \E p \in 1..Len(db["programs"]) :
                db["programs"][p].id = db[t][i].program_id

\* C24: after a run of db_disciplines, db_institutions or db_programs alone
\* the stage's own table is reloaded and every table that depends on it is
\* empty; no step of a run of db_descriptions alone changes another table
\* than the descriptions; and in every committed state the description and
\* embedding rows reference existing programs.
C24_ReloadAloneEmptiesDependents ==
    /\ [](/\ \A s \in LoadStages :
                RanAlone(s) =>
                    /\ \A t \in EmptiedBy(s) : db[t] = <<>>
                    /\ Len(db[Target(s)]) = Len(out[CHOOSE u \in Inputs(s) : TRUE])
          /\ ProgramsReferenced)
    /\ [][(sel = {"db_descriptions"} /\ sel' = sel) =>
             \A t \in Tables \cup {"index"} :
                 t # "program_descriptions" => db'[t] = db[t]]_vars

\* a full run has loaded every table and built the index; db_programs run
\* alone afterwards has reloaded the programs and left no description and no
\* embedding
C24_Witness ==
    /\ RanAlone("db_programs")
    /\ loaded.n >= 1
    /\ db["index"]
    /\ prior["db_programs"] # <<>>
    /\ db["programs"] # <<>>
    /\ db["institutions"] # <<>>
    /\ db["program_descriptions"] = <<>>
    /\ db["program_embeddings"] = <<>>

\* db_descriptions run alone has reloaded the descriptions next to the
\* embeddings of the full run
C24_DescriptionsAlone ==
    /\ RanAlone("db_descriptions")
    /\ db["program_descriptions"] # <<>>
    /\ db["program_embeddings"] # <<>>

==============================================================================
